---- MODULE Spec2Model ----
(***************************************************************************)
(* cargo-onefile: the pipeline of `main` (src/src/main.rs).                *)
(*                                                                         *)
(*   validate bounds -> resolve search roots -> parallel walk (filter_path *)
(*   in every worker, accepted paths sent over an mpsc channel) -> collect *)
(*   -> empty check -> max_files truncate -> load -> sort -> head -> table *)
(*   of contents -> write.                                                 *)
(*                                                                         *)
(* Paths are sequences of components; file contents, the header and the    *)
(* written output are sequences of characters and line tokens, so that     *)
(* line numbers are counted on what is written.                            *)
(***************************************************************************)
EXTENDS Integers, Sequences, FiniteSets

VARIABLES
    pc,             \* position of main
    args,           \* the parsed OnefileArgs
    head,           \* contents of the --head file once read (main.rs:344)
    search_paths,   \* the search roots, in order
    pending,        \* walker work items not yet visited: <<root index, path>>
    senders,        \* live Sender handles of the channel
    chan,           \* messages in the channel, in arrival order
    delivered,      \* every path ever sent, in arrival order
    source_files,   \* Vec<PathBuf> collected from the channel
    file_contents,  \* Vec<(PathBuf, String)>
    toc,            \* the table of contents string, when built
    output,         \* what was written to the destination
    outcome         \* "running", "ok" (main returned Ok) or "error" (bail!/?)

vars == <<pc, args, head, search_paths,
          pending, senders, chan, delivered, source_files, file_contents,
          toc, output, outcome>>

(***************************************************************************)
(* Bounds of the model.                                                    *)
(***************************************************************************)
MaxBound == 2       \* size bounds are drawn from 1..MaxBound
MaxFilesArg == 2    \* --max-files is drawn from 0..MaxFilesArg
NumWorkers == 2     \* threads of the parallel walker

Workers == 1..NumWorkers

\* the Sender created at main.rs:271; worker w holds clone w
MainTx == 0

(***************************************************************************)
(* Option<T>.                                                              *)
(***************************************************************************)
None == [some |-> FALSE]
Some(v) == [some |-> TRUE, val |-> v]

(***************************************************************************)
(* Text.  A string is a sequence of tokens: a character, a newline, or a   *)
(* piece of text that holds no newline (a separator line's "{separator}    *)
(* {path}", a table-of-contents line "// Ln{n} : {path}"; the path shown   *)
(* there is canonicalized, which changes no line count and is left out).   *)
(***************************************************************************)
NL == [nl |-> TRUE]
Ch(c) == [ch |-> c]
SepText(p) == [sep |-> p]
TocText(n, p) == [ln |-> n, file |-> p]
Text(s) == [text |-> s]

IsNL(t) == "nl" \in DOMAIN t

(***************************************************************************)
(* The project on disk.  manifest_path is the default ./Cargo.toml, so     *)
(* manifest_parent is "." ; the tree below it:                             *)
(*     ./Cargo.lock   empty                                                *)
(*     ./a.rs         "a"      (no trailing newline)                       *)
(*     ./b.rs         two bytes that are not UTF-8 (read_to_string fails)  *)
(*     ./m/           a directory, also a workspace member                 *)
(*     ./m/x.rs       "x\n"                                                *)
(***************************************************************************)
ManifestParent == <<".">>

Entries ==
    { [path |-> <<".">>,               isDir |-> TRUE,  size |-> 4096, utf8 |-> FALSE, content |-> <<>>],
      [path |-> <<".", "Cargo.lock">>, isDir |-> FALSE, size |-> 0, utf8 |-> TRUE,  content |-> <<>>],
      [path |-> <<".", "a.rs">>,       isDir |-> FALSE, size |-> 1, utf8 |-> TRUE,  content |-> <<Ch("a")>>],
      [path |-> <<".", "b.rs">>,       isDir |-> FALSE, size |-> 2, utf8 |-> FALSE, content |-> <<>>],
      [path |-> <<".", "m">>,          isDir |-> TRUE,  size |-> 4096, utf8 |-> FALSE, content |-> <<>>],
      [path |-> <<".", "m", "x.rs">>,  isDir |-> FALSE, size |-> 2, utf8 |-> TRUE,  content |-> <<Ch("x"), NL>>] }

Paths == { e.path : e \in Entries }

EntryAt(p) == CHOOSE e \in Entries : e.path = p

Children(p) == { q \in Paths : Len(q) = Len(p) + 1 /\ SubSeq(q, 1, Len(p)) = p }

\* Path::file_name: the last component, none for "."
FileName(p) == IF p[Len(p)] = "." THEN None ELSE Some(p[Len(p)])

\* Path::extension: what follows the last dot of the file name
Extension(p) ==
    LET n == p[Len(p)]
    IN  IF n = "Cargo.lock" THEN Some("lock")
        ELSE IF n \in {"a.rs", "b.rs", "x.rs"} THEN Some("rs")
        ELSE None

\* byte order of the component names: "." < "Cargo.lock" < "a.rs" < "b.rs" < "m" < "x.rs"
NameRank(n) ==
    CASE n = "."          -> 0
      [] n = "Cargo.lock" -> 1
      [] n = "a.rs"       -> 2
      [] n = "b.rs"       -> 3
      [] n = "m"          -> 4
      [] n = "x.rs"       -> 5

\* Ord for Path: lexicographic over the components
RECURSIVE PathLess(_, _)
PathLess(p, q) ==
    IF q = <<>> THEN FALSE
    ELSE IF p = <<>> THEN TRUE
    ELSE IF NameRank(Head(p)) # NameRank(Head(q))
         THEN NameRank(Head(p)) < NameRank(Head(q))
    ELSE PathLess(Tail(p), Tail(q))

(***************************************************************************)
(* filter_path (main.rs:443-495), with no exclude patterns and no time     *)
(* bounds given.  TRUE when the entry is accepted (Some(path)).            *)
(***************************************************************************)
ExtensionFilter(extension, p) ==
    IF extension.some
    THEN \E ext_user \in extension.val : Extension(p) = Some(ext_user)
    ELSE ~(Extension(p) = Some("rs"))

SizeFilter(smaller_than, larger_than, e) ==
    IF smaller_than.some \/ larger_than.some
    THEN /\ ~(smaller_than.some /\ e.size > smaller_than.val)
         /\ ~(larger_than.some /\ e.size < larger_than.val)
    ELSE TRUE

filter_path(a, e) ==
    /\ ExtensionFilter(a.extension, e.path)
    /\ SizeFilter(a.smaller_than, a.larger_than, e)

(***************************************************************************)
(* String helpers.                                                         *)
(***************************************************************************)
RECURSIVE CountNL(_)
CountNL(s) == IF s = <<>> THEN 0 ELSE (IF IsNL(Head(s)) THEN 1 ELSE 0) + CountNL(Tail(s))

\* str::lines().count(): the pieces between newlines, a final empty piece not counted
LinesCount(s) ==
    CountNL(s) + (IF s # <<>> /\ ~IsNL(s[Len(s)]) THEN 1 ELSE 0)

\* std::fs::read_to_string
ReadToString(p) ==
    LET e == EntryAt(p)
    IN  IF e.isDir \/ ~e.utf8 THEN None ELSE Some(e.content)

(***************************************************************************)
(* The stages of main after the walk, as functions of their inputs.        *)
(***************************************************************************)
\* Truncate keeping one path too many
TruncateOffByOne(files, mf) ==
    IF mf.some /\ Len(files) > mf.val THEN SubSeq(files, 1, mf.val + 1) ELSE files

\* main.rs:318-327
Truncate(files, mf) ==
    IF mf.some /\ Len(files) > mf.val THEN SubSeq(files, 1, mf.val) ELSE files

\* Load giving up at the first read that fails
RECURSIVE LoadStopsAtError(_)
LoadStopsAtError(files) ==
    IF files = <<>> THEN <<>>
    ELSE LET r == ReadToString(Head(files))
         IN  IF r.some
             THEN <<[file |-> Head(files), content |-> r.val]>>
                  \o LoadStopsAtError(Tail(files))
             ELSE <<>>

\* main.rs:330-339: par_iter().filter_map(read_to_string).collect()
RECURSIVE Load(_)
Load(files) ==
    IF files = <<>> THEN <<>>
    ELSE LET r == ReadToString(Head(files))
         IN  (IF r.some THEN <<[file |-> Head(files), content |-> r.val]>> ELSE <<>>)
             \o Load(Tail(files))

\* main.rs:342: par_sort_by_cached_key(|(a, _)| a.clone()), a stable sort by
\* path: an element comes after those with a smaller path and after the
\* earlier ones with the same path
SortByPath(fc) ==
    LET Before(i, j) ==
            \/ PathLess(fc[i].file, fc[j].file)
            \/ (fc[i].file = fc[j].file /\ i < j)
        Place(i) == 1 + Cardinality({ j \in 1..Len(fc) : Before(j, i) })
    IN  [ k \in 1..Len(fc) |-> fc[CHOOSE i \in 1..Len(fc) : Place(i) = k] ]

\* main.rs:348-366: the table of contents predicted for the sorted files
RECURSIVE TocEntries(_, _, _)
TocEntries(fc, curr_line, toc_len) ==
    IF fc = <<>> THEN <<>>
    ELSE <<TocText(curr_line + toc_len, Head(fc).file), NL>>
         \o TocEntries(Tail(fc), curr_line + LinesCount(Head(fc).content) + 2, toc_len)

TocLen(fc, h) == Len(fc) + 5 + (IF h.some THEN Len(h.val) ELSE 0)

TableOfContents(fc, h) ==
    <<Text("// Table of Contents"), NL, Text("// =================="), NL>>
    \o TocEntries(fc, 0, TocLen(fc, h))
    \o <<Text("// =================="), NL>>

\* main.rs:400-402 (and 388-391): one file block
FileBlock(f) == <<SepText(f.file), NL>> \o f.content \o <<NL>>

RECURSIVE FileBlocks(_)
FileBlocks(fc) ==
    IF fc = <<>> THEN <<>> ELSE FileBlock(Head(fc)) \o FileBlocks(Tail(fc))

\* main.rs:381-403: what println!/writeln! put on the destination
Render(h, t, fc) ==
    (IF h.some THEN h.val \o <<NL>> ELSE <<>>)
    \o (IF t.some THEN t.val \o <<NL>> ELSE <<>>)
    \o FileBlocks(fc)

(***************************************************************************)
(* Inputs.                                                                 *)
(***************************************************************************)
SizeArgs == {None} \cup { Some(v) : v \in 1..MaxBound }

ExtensionArgs == { None, Some({"rs"}), Some({"rs", "lock"}) }

\* [workspace] members of the manifest
MemberArgs == { <<>>, << <<"m">> >> }

DepthArgs == { 1, 10 }

MaxFilesArgs == {None} \cup { Some(n) : n \in 0..MaxFilesArg }

\* what the --head file may hold
HeadFiles ==
    { <<Ch("h")>>, <<Ch("h"), Ch("h")>>, <<Ch("h"), NL>>, <<Ch("h"), NL, Ch("h"), NL>> }

ArgsSpace ==
    [ smaller_than : SizeArgs, larger_than : SizeArgs, extension : ExtensionArgs,
      members : MemberArgs, depth : DepthArgs, max_files : MaxFilesArgs,
      head : BOOLEAN, table_of_contents : BOOLEAN, info : BOOLEAN ]

(***************************************************************************)
(* main.                                                                   *)
(***************************************************************************)
Init ==
    /\ pc = "validate"
    /\ args \in ArgsSpace
    /\ head = None
    /\ search_paths = <<>>
    /\ pending = {}
    /\ senders = {}
    /\ chan = <<>>
    /\ delivered = <<>>
    /\ source_files = <<>>
    /\ file_contents = <<>>
    /\ toc = None
    /\ output = None
    /\ outcome = "running"

\* main.rs:197-201: `if st > lt { bail!(...) }`
BoundsRejected(smaller_than, larger_than) ==
    smaller_than.some /\ larger_than.some /\ smaller_than.val > larger_than.val

\* main.rs:197-207
Validate ==
    /\ pc = "validate"
    /\ IF BoundsRejected(args.smaller_than, args.larger_than)
       THEN pc' = "exit" /\ outcome' = "error"
       ELSE pc' = "resolve" /\ outcome' = outcome
    /\ UNCHANGED <<args, head, search_paths,
                   pending, senders, chan, delivered, source_files,
                   file_contents, toc, output>>

\* main.rs:211-260: no --include, no --dependencies
SearchPaths(a) ==
    [ i \in 1..Len(a.members) |-> ManifestParent \o a.members[i] ] \o <<ManifestParent>>

\* main.rs:211-276: the roots become the walker's first work items, every
\* worker gets its clone of tx
StartWalk ==
    /\ pc = "resolve"
    /\ search_paths' = SearchPaths(args)
    /\ pending' = { <<i, search_paths'[i]>> : i \in 1..Len(search_paths') }
    /\ senders' = {MainTx} \cup Workers
    /\ pc' = "walk"
    /\ UNCHANGED <<args, head, chan,
                   delivered, source_files, file_contents, toc, output, outcome>>

\* WalkParallel: what a visited entry adds to the work: its children when it
\* is a directory (no max_depth is set on the builder, main.rs:267-274)
Descend(item) ==
    IF EntryAt(item[2]).isDir
    THEN { <<item[1], q>> : q \in Children(item[2]) }
    ELSE {}

\* Visit over a channel that holds one message: a send into a full channel is lost
VisitBoundedChannel(w, item) ==
    /\ pc = "walk"
    /\ w \in senders
    /\ item \in pending
    /\ pending' = (pending \ {item}) \cup Descend(item)
    /\ IF filter_path(args, EntryAt(item[2])) /\ chan = <<>>
       THEN chan' = Append(chan, item[2]) /\ delivered' = Append(delivered, item[2])
       ELSE UNCHANGED <<chan, delivered>>
    /\ UNCHANGED <<pc, args, head,
                   search_paths, senders, source_files, file_contents, toc,
                   output, outcome>>

\* main.rs:278-295: worker w's callback on one entry
Visit(w, item) ==
    /\ pc = "walk"
    /\ w \in senders
    /\ item \in pending
    /\ pending' = (pending \ {item}) \cup Descend(item)
    /\ IF filter_path(args, EntryAt(item[2]))
       THEN chan' = Append(chan, item[2]) /\ delivered' = Append(delivered, item[2])
       ELSE UNCHANGED <<chan, delivered>>
    /\ UNCHANGED <<pc, args, head,
                   search_paths, senders, source_files, file_contents, toc,
                   output, outcome>>

\* main.rs:272-296: run() returns when no work is left; the workers' closures,
\* and their senders, are dropped
RunReturns ==
    /\ pc = "walk"
    /\ pending = {}
    /\ senders' = {MainTx}
    /\ pc' = "drop_tx"
    /\ UNCHANGED <<args, head, search_paths,
                   pending, chan, delivered, source_files, file_contents, toc,
                   output, outcome>>

\* main going on to drain the channel while it still holds tx
DropTxForgotten ==
    /\ pc = "drop_tx"
    /\ pc' = "collect"
    /\ UNCHANGED <<args, head, search_paths, pending, senders, chan, delivered,
                   source_files, file_contents, toc, output, outcome>>

\* main.rs:297
DropTx ==
    /\ pc = "drop_tx"
    /\ senders' = senders \ {MainTx}
    /\ pc' = "collect"
    /\ UNCHANGED <<args, head, search_paths,
                   pending, chan, delivered, source_files, file_contents, toc,
                   output, outcome>>

\* main.rs:298: rx.iter() ends when the channel is empty and no sender lives
Collect ==
    /\ pc = "collect"
    /\ senders = {}
    /\ source_files' = chan
    /\ chan' = <<>>
    /\ pc' = "check_empty"
    /\ UNCHANGED <<args, head, search_paths,
                   pending, senders, delivered, file_contents, toc, output,
                   outcome>>

\* CheckEmpty without the early return
CheckEmptyFallsThrough ==
    /\ pc = "check_empty"
    /\ pc' = "truncate"
    /\ UNCHANGED <<args, head, search_paths, pending, senders, chan, delivered,
                   source_files, file_contents, toc, output, outcome>>

\* main.rs:313-316
CheckEmpty ==
    /\ pc = "check_empty"
    /\ IF source_files = <<>>
       THEN pc' = "exit" /\ outcome' = "ok"
       ELSE pc' = "truncate" /\ outcome' = outcome
    /\ UNCHANGED <<args, head, search_paths,
                   pending, senders, chan, delivered, source_files,
                   file_contents, toc, output>>

\* main.rs:318-327
TruncateFiles ==
    /\ pc = "truncate"
    /\ source_files' = Truncate(source_files, args.max_files)
    /\ pc' = "load"
    /\ UNCHANGED <<args, head, search_paths, pending, senders, chan, delivered,
                   file_contents, toc, output, outcome>>

\* main.rs:329-339
LoadFiles ==
    /\ pc = "load"
    /\ file_contents' = Load(source_files)
    /\ pc' = "sort"
    /\ UNCHANGED <<args, head, search_paths, pending, senders, chan, delivered,
                   source_files, toc, output, outcome>>

\* main.rs:341-342
SortFiles ==
    /\ pc = "sort"
    /\ file_contents' = SortByPath(file_contents)
    /\ pc' = "head"
    /\ UNCHANGED <<args, head, search_paths, pending, senders, chan, delivered,
                   source_files, toc, output, outcome>>

\* main.rs:344-346: r is what read_to_string returns when --head is given
ReadHead(r) ==
    /\ pc = "head"
    /\ IF ~args.head
       THEN head' = None /\ pc' = "toc" /\ outcome' = outcome
       ELSE IF r.some
            THEN head' = r /\ pc' = "toc" /\ outcome' = outcome
            ELSE head' = head /\ pc' = "exit" /\ outcome' = "error"
    /\ UNCHANGED <<args, search_paths, pending, senders, chan, delivered,
                   source_files, file_contents, toc, output>>

\* main.rs:348-366
BuildToc ==
    /\ pc = "toc"
    /\ toc' = IF args.table_of_contents
              THEN Some(TableOfContents(file_contents, head))
              ELSE None
    /\ pc' = "write"
    /\ UNCHANGED <<args, head, search_paths, pending, senders, chan, delivered,
                   source_files, file_contents, output, outcome>>

\* main.rs:368-405: info mode writes nothing; otherwise the destination is
\* stdout or the created file (created = FALSE: File::create fails)
Write(created) ==
    /\ pc = "write"
    /\ IF args.info
       THEN output' = output /\ outcome' = "ok"
       ELSE IF created
            THEN output' = Some(Render(head, toc, file_contents)) /\ outcome' = "ok"
            ELSE output' = output /\ outcome' = "error"
    /\ pc' = "exit"
    /\ UNCHANGED <<args, head, search_paths, pending, senders, chan, delivered,
                   source_files, file_contents, toc>>

Next ==
    \/ Validate
    \/ StartWalk
    \/ \E w \in Workers : \E item \in pending : Visit(w, item)
    \/ RunReturns
    \/ DropTx
    \/ Collect
    \/ CheckEmpty
    \/ TruncateFiles
    \/ LoadFiles
    \/ SortFiles
    \/ \E r \in {None} \cup { Some(h) : h \in HeadFiles } : ReadHead(r)
    \/ BuildToc
    \/ \E created \in BOOLEAN : Write(created)

Spec == Init /\ [][Next]_vars

(***************************************************************************)
(* Reading the written output back.                                        *)
(***************************************************************************)
\* the indices of the tokens of `out` that have the field, ascending
RECURSIVE PositionsFrom(_, _, _)
PositionsFrom(out, i, field) ==
    IF i > Len(out) THEN <<>>
    ELSE (IF field \in DOMAIN out[i] THEN <<i>> ELSE <<>>)
         \o PositionsFrom(out, i + 1, field)

SepPositions(out) == PositionsFrom(out, 1, "sep")
TocPositions(out) == PositionsFrom(out, 1, "ln")

\* the 1-based number of the line that holds token i
LineOf(out, i) == 1 + CountNL(SubSeq(out, 1, i - 1))

\* the paths of the file blocks of `out`, in the order written
BlockPaths(out) == [ k \in 1..Len(SepPositions(out)) |-> out[SepPositions(out)[k]].sep ]

\* a list of paths in ascending order
SortPaths(ps) ==
    LET sorted == SortByPath([ i \in 1..Len(ps) |-> [file |-> ps[i]] ])
    IN  [ i \in 1..Len(ps) |-> sorted[i].file ]

IsPrefix(r, p) == Len(r) <= Len(p) /\ SubSeq(p, 1, Len(r)) = r

Written == pc = "exit" /\ output.some

(***************************************************************************)
(* C1: when a table of contents is requested, the line number printed in   *)
(* the k-th table-of-contents entry is the 1-based number of the line of   *)
(* the written output that holds the k-th file's separator line.           *)
(***************************************************************************)
C1_TocLinesMatchOutput ==
    (Written /\ args.table_of_contents) =>
        LET out == output.val
            sp == SepPositions(out)
            tp == TocPositions(out)
        IN  /\ Len(tp) = Len(sp)
            /\ \A k \in 1..Len(sp) :
                  /\ out[tp[k]].file = out[sp[k]].sep
                  /\ out[tp[k]].ln = LineOf(out, sp[k])

(***************************************************************************)
(* C2: the file blocks written do not depend on the order in which the     *)
(* workers delivered the accepted paths: they are the blocks of the run on *)
(* the same files in which the paths arrive in ascending order.            *)
(***************************************************************************)
C2_OutputIndependentOfArrival ==
    Written =>
        BlockPaths(output.val) =
            BlockPaths(FileBlocks(SortByPath(Load(Truncate(SortPaths(delivered),
                                                           args.max_files)))))

(***************************************************************************)
(* C3: the file blocks of the output are strictly ascending by path, so no *)
(* path is written twice.                                                  *)
(***************************************************************************)
C3_BlocksStrictlyAscending ==
    Written =>
        LET bp == BlockPaths(output.val)
        IN  \A k \in 1..(Len(bp) - 1) : PathLess(bp[k], bp[k + 1])

(***************************************************************************)
(* C4: with max_files = N and more than N accepted paths, the paths kept   *)
(* for loading are the N smallest accepted paths.                          *)
(***************************************************************************)
C4_TruncateKeepsSmallest ==
    (pc \in {"load", "sort", "head", "toc", "write"}
        /\ args.max_files.some /\ Len(delivered) > args.max_files.val) =>
        SortPaths(source_files) = SubSeq(SortPaths(delivered), 1, args.max_files.val)

(***************************************************************************)
(* C5: with both size bounds given, the run aborts with an error before    *)
(* any filesystem access exactly when the minimum (larger_than) is greater *)
(* than the maximum (smaller_than).                                        *)
(***************************************************************************)
C5_AbortsIffMinAboveMax ==
    (pc # "validate" /\ args.smaller_than.some /\ args.larger_than.some) =>
        ((pc = "exit" /\ outcome = "error" /\ search_paths = <<>>)
            <=> args.larger_than.val > args.smaller_than.val)

(***************************************************************************)
(* C6: every path the filter accepts has an extension in the allow-list,   *)
(* which is ["rs"] when no --extension is given.                           *)
(***************************************************************************)
C6_AcceptedExtensionAllowed ==
    LET allow == IF args.extension.some THEN args.extension.val ELSE {"rs"}
    IN  \A i \in 1..Len(delivered) :
            \E ext \in allow : Extension(delivered[i]) = Some(ext)

(***************************************************************************)
(* C7: no file block of the output is for a file named Cargo.lock          *)
(* (main has no flag that asks for the lock file).                         *)
(***************************************************************************)
C7_NoLockFileInOutput ==
    Written =>
        \A k \in 1..Len(BlockPaths(output.val)) :
            FileName(BlockPaths(output.val)[k]) # Some("Cargo.lock")

(***************************************************************************)
(* C8: the walker never holds an entry that lies deeper below its search   *)
(* root than --depth, and every path sent to the collector lies within     *)
(* --depth of a search root.                                               *)
(***************************************************************************)
C8_DepthHonored ==
    /\ \A item \in pending :
          Len(item[2]) - Len(search_paths[item[1]]) <= args.depth
    /\ \A i \in 1..Len(delivered) :
          \E r \in 1..Len(search_paths) :
              /\ IsPrefix(search_paths[r], delivered[i])
              /\ Len(delivered[i]) - Len(search_paths[r]) <= args.depth

(***************************************************************************)
(* C9 as claimed: when the walk found no file, the run ends with an error  *)
(* and writes no output.                                                   *)
(***************************************************************************)
ZeroFound == pc = "exit" /\ search_paths # <<>> /\ delivered = <<>>

C9_ZeroFilesIsFatal ==
    ZeroFound => (outcome = "error" /\ ~output.some)

(***************************************************************************)
(* C9 as amended: when the walk found no file, main returns Ok(()) at the  *)
(* empty check: nothing is loaded, no header is read, no table of contents *)
(* is built and no output is written.                                      *)
(***************************************************************************)
C9_ZeroFilesReturnsOkWithoutOutput ==
    ZeroFound =>
        /\ outcome = "ok"
        /\ ~output.some
        /\ ~head.some
        /\ ~toc.some
        /\ file_contents = <<>>

C9_Witness ==
    ZeroFound /\ outcome = "ok" /\ ~args.info /\ args.head /\ args.table_of_contents

(***************************************************************************)
(* C10 as claimed: with max_files = N and more than N accepted paths, the  *)
(* written output holds exactly N file blocks.                             *)
(***************************************************************************)
OverMaxFiles == args.max_files.some /\ Len(delivered) > args.max_files.val

C10_ExactlyMaxFilesBlocks ==
    (Written /\ OverMaxFiles) =>
        Len(BlockPaths(output.val)) = args.max_files.val

(***************************************************************************)
(* C10 as amended: with max_files = N and more than N accepted paths,      *)
(* exactly N paths are kept for loading and the written output holds one   *)
(* file block for each kept path that could be read: at most N blocks, and *)
(* N only when every kept path is read.                                    *)
(***************************************************************************)
C10_AtMostMaxFilesBlocks ==
    (Written /\ OverMaxFiles) =>
        LET n == args.max_files.val
            blocks == Len(BlockPaths(output.val))
        IN  /\ Len(source_files) = n
            /\ blocks <= n
            /\ blocks = Cardinality({ i \in 1..Len(source_files) :
                                        ReadToString(source_files[i]).some })

C10_Witness ==
    /\ Written /\ OverMaxFiles
    /\ \E i \in 1..Len(source_files) :
          ~EntryAt(source_files[i]).isDir /\ ~ReadToString(source_files[i]).some
    /\ Len(BlockPaths(output.val)) < args.max_files.val
    /\ Len(BlockPaths(output.val)) > 0

(***************************************************************************)
(* C13: a read that fails drops only its own entry and never aborts the    *)
(* run: once the load is done the run goes on, and the loaded files are    *)
(* exactly the candidate paths whose read succeeded, each with the content *)
(* that was read (so they are a subset of the candidates).                 *)
(***************************************************************************)
Loaded == pc \in {"sort", "head", "toc", "write"}

Range(seq) == { seq[i] : i \in 1..Len(seq) }

C13_LoadDropsOnlyFailedReads ==
    Loaded =>
        /\ outcome = "running"
        /\ { f.file : f \in Range(file_contents) }
              = { p \in Range(source_files) : ReadToString(p).some }
        /\ \A f \in Range(file_contents) : Some(f.content) = ReadToString(f.file)
        /\ Len(file_contents)
              = Cardinality({ i \in 1..Len(source_files) :
                                ReadToString(source_files[i]).some })

\* a file whose read fails is followed by one whose read succeeds
C13_Witness ==
    /\ pc = "sort"
    /\ \E i, j \in 1..Len(source_files) :
          /\ i < j
          /\ ~EntryAt(source_files[i]).isDir
          /\ ~ReadToString(source_files[i]).some
          /\ ReadToString(source_files[j]).some
          /\ source_files[j] \in { f.file : f \in Range(file_contents) }

(***************************************************************************)
(* C11: for every interleaving of the workers, no accepted path is lost    *)
(* and none is invented.  Every entry below a search root is visited once  *)
(* per root that reaches it; during the walk the channel holds one message *)
(* for every accepted entry already visited, and the list collected after  *)
(* the walk is the sequence of sends: each accepted path, as many times as *)
(* it was sent.                                                            *)
(***************************************************************************)
Count(seq, p) == Cardinality({ i \in 1..Len(seq) : seq[i] = p })

\* the roots from which p is reached
RootsOver(p) == { i \in 1..Len(search_paths) : IsPrefix(search_paths[i], p) }

\* the roots whose visit of p is still to come
RootsToVisit(p) ==
    { i \in RootsOver(p) : \E item \in pending : item[1] = i /\ IsPrefix(item[2], p) }

Accepted(p) == filter_path(args, EntryAt(p))

C11_CollectedIsExactlyAccepted ==
    /\ pc = "walk" =>
          /\ chan = delivered
          /\ outcome = "running"
          /\ \A p \in Paths :
                Count(chan, p) =
                    IF Accepted(p)
                    THEN Cardinality(RootsOver(p)) - Cardinality(RootsToVisit(p))
                    ELSE 0
    /\ pc \in {"drop_tx", "collect"} =>
          /\ chan = delivered
          /\ \A p \in Paths :
                Count(chan, p) = IF Accepted(p) THEN Cardinality(RootsOver(p)) ELSE 0
    /\ pc = "check_empty" =>
          /\ chan = <<>>
          /\ source_files = delivered
          /\ Range(source_files) \subseteq Paths
          /\ \A p \in Paths :
                Count(source_files, p) =
                    IF Accepted(p) THEN Cardinality(RootsOver(p)) ELSE 0

\* collected: several accepted paths, one of them sent twice, and not in
\* ascending order
C11_Witness ==
    /\ pc = "check_empty"
    /\ Len(source_files) >= 3
    /\ \E p \in Paths : Count(source_files, p) = 2
    /\ source_files # SortPaths(source_files)

(***************************************************************************)
(* C12: the pipeline always terminates.  When main starts to drain the     *)
(* channel no sender is left (the workers' clones went when the walk       *)
(* returned, the original at drop(tx)), so the drain ends; in every state  *)
(* but the final one (main has returned Ok or a fatal error) a step can be *)
(* taken, and every step brings the end nearer: it moves main forward, or  *)
(* it visits one of the finitely many entries still to be walked.  So no   *)
(* run blocks and none goes on forever.                                    *)
(***************************************************************************)
\* how far main is from its end
StagesLeft ==
    CASE pc = "validate"    -> 13
      [] pc = "resolve"     -> 12
      [] pc = "walk"        -> 11
      [] pc = "drop_tx"     -> 10
      [] pc = "collect"     -> 9
      [] pc = "check_empty" -> 8
      [] pc = "truncate"    -> 7
      [] pc = "load"        -> 6
      [] pc = "sort"        -> 5
      [] pc = "head"        -> 4
      [] pc = "toc"         -> 3
      [] pc = "write"       -> 2
      [] pc = "exit"        -> 0

\* the visits the walker still has to make: one per root and entry below a
\* pending work item
VisitsLeft ==
    Cardinality({ v \in (1..Len(search_paths)) \X Paths :
                    \E item \in pending : item[1] = v[1] /\ IsPrefix(item[2], v[2]) })

Finished == pc = "exit" /\ outcome \in {"ok", "error"}

C12_AlwaysTerminates ==
    /\ [](pc = "collect" => senders = {})
    /\ [](pc = "exit" => Finished)
    /\ [](~Finished => ENABLED Next)
    /\ [][\/ StagesLeft' < StagesLeft
          \/ (StagesLeft' = StagesLeft /\ VisitsLeft' < VisitsLeft)]_vars

\* a run that walked, drained a channel holding several messages and returned
C12_Witness ==
    /\ Finished
    /\ outcome = "ok"
    /\ senders = {}
    /\ Len(delivered) >= 3
    /\ output.some

====
